---- MODULE Spec2Model ----
(***************************************************************************)
(* A model of the circular-slider geometry utilities                       *)
(* (src/utilities/circularGeometry.ts and the rounded-end arc path         *)
(* builder).  The functions are pure; each specification below draws the   *)
(* arguments of a call in Init and applies the function in an action.      *)
(*                                                                         *)
(* Numbers.  A JavaScript number is modelled as an exact rational          *)
(* <<n, d>> in lowest terms with d > 0, plus the three non-finite values   *)
(* NaN = <<0, 0>>, Infinity = <<1, 0>> and -Infinity = <<-1, 0>>.          *)
(* Arithmetic is exact: IEEE-754 rounding is not modelled, and -0 is not   *)
(* distinguished from 0.                                                   *)
(***************************************************************************)
EXTENDS Integers, Sequences, FiniteSets, TLC

VARIABLES
    op,     \* the function (or chain of functions) being called
    args,   \* its arguments
    mid,    \* the value passed between the two calls of a chain
    ret,    \* what the call returned or threw
    pc,     \* position of the call: "call", "mid" or "done"
    props,      \* this.props of the mounted CircularSlider
    svgRef,     \* this.svgRef.current: the svg element, or Null
    listeners,  \* the listeners added to the svg element with addEventListener
    event,      \* the event of the last step, Null when the step was no event
    calls,      \* what the handlers of that event called, in order
    session     \* history: a mouse drag session on the svg element is open

vars == <<op, args, mid, ret, pc, props, svgRef, listeners, event, calls, session>>

sliderVars == <<props, svgRef, listeners, event, calls, session>>

callVars == <<op, args, mid, ret, pc>>

Null == [kind |-> "none"]

\* the specifications of single function calls have no component
NoSlider ==
    /\ props = Null
    /\ svgRef = Null
    /\ listeners = {}
    /\ event = Null
    /\ calls = <<>>
    /\ session = FALSE

(***************************************************************************)
(* Exact arithmetic on JavaScript numbers                                  *)
(***************************************************************************)
Abs(x) == IF x < 0 THEN -x ELSE x

Sign(x) == IF x < 0 THEN -1 ELSE IF x > 0 THEN 1 ELSE 0

RECURSIVE GCD(_, _)
GCD(a, b) == IF b = 0 THEN a ELSE GCD(b, a % b)

\* the number n/d, in lowest terms; d = 0 gives NaN or an infinity
Num(n, d) ==
    IF d = 0 THEN <<Sign(n), 0>>
    ELSE LET g == GCD(Abs(n), Abs(d))
             s == Sign(d)
         IN  <<(s * n) \div g, (s * d) \div g>>

R(i) == <<i, 1>>

NaN == <<0, 0>>

Infinity == <<1, 0>>

IsNaN(a) == a = NaN

IsFinite(a) == a[2] # 0

Neg(a) == <<-a[1], a[2]>>

\* a + b
Add(a, b) ==
    IF IsNaN(a) \/ IsNaN(b) THEN NaN
    ELSE IF ~IsFinite(a) THEN (IF ~IsFinite(b) /\ b # a THEN NaN ELSE a)
    ELSE IF ~IsFinite(b) THEN b
    ELSE Num(a[1] * b[2] + b[1] * a[2], a[2] * b[2])

\* a - b
Sub(a, b) == Add(a, Neg(b))

\* a * b
Mul(a, b) == Num(a[1] * b[1], a[2] * b[2])

\* a / b  (x / 0 is an infinity, 0 / 0 is NaN)
Div(a, b) ==
    LET recip == IF b[1] = 0 /\ b[2] # 0 THEN Infinity ELSE Num(b[2], b[1])
    IN  Mul(a, recip)

\* a < b  (false when either is NaN)
Lt(a, b) ==
    IF IsNaN(a) \/ IsNaN(b) \/ a = b THEN FALSE
    ELSE IF ~IsFinite(a) THEN a[1] < 0
    ELSE IF ~IsFinite(b) THEN b[1] > 0
    ELSE a[1] * b[2] < b[1] * a[2]

Gt(a, b) == Lt(b, a)

\* a <= b  (false when either is NaN)
Le(a, b) == ~IsNaN(a) /\ ~IsNaN(b) /\ ~Lt(b, a)

Ge(a, b) == Le(b, a)

\* a === b  (NaN is equal to nothing)
StrictEq(a, b) == ~IsNaN(a) /\ ~IsNaN(b) /\ a = b

\* the integer part of a finite number, rounding toward zero
Trunc(a) ==
    IF a[1] >= 0 THEN a[1] \div a[2] ELSE -((-a[1]) \div a[2])

\* a % b, JavaScript's remainder: the result has the sign of the dividend
Rem(a, b) ==
    IF IsNaN(a) \/ IsNaN(b) \/ ~IsFinite(a) \/ b[1] = 0 THEN NaN
    ELSE IF ~IsFinite(b) THEN a
    ELSE Sub(a, Mul(b, R(Trunc(Div(a, b)))))

(***************************************************************************)
(* What a call produces                                                    *)
(***************************************************************************)
Return(v) == [kind |-> "return", value |-> v]

Throw(msg) == [kind |-> "throw", message |-> msg]

(***************************************************************************)
(* src/utilities/circularGeometry.ts: angleToValue, valueToAngle           *)
(***************************************************************************)
\* mutant: the clamp above endAngle is missing, the value extrapolates
angleToValue_noUpperClamp(p) ==
    IF Le(p.endAngle, p.startAngle)
    THEN Throw("endAngle must be greater than startAngle")
    ELSE IF Lt(p.angle, p.startAngle) THEN Return(p.minValue)
    ELSE LET ratio == Div(Sub(p.angle, p.startAngle),
                          Sub(p.endAngle, p.startAngle))
             value == Add(Mul(ratio, Sub(p.maxValue, p.minValue)), p.minValue)
         IN  Return(value)

\* mutant: the clamp below startAngle is missing, the value extrapolates
angleToValue_noLowerClamp(p) ==
    IF Le(p.endAngle, p.startAngle)
    THEN Throw("endAngle must be greater than startAngle")
    ELSE IF Gt(p.angle, p.endAngle) THEN Return(p.maxValue)
    ELSE LET ratio == Div(Sub(p.angle, p.startAngle),
                          Sub(p.endAngle, p.startAngle))
             value == Add(Mul(ratio, Sub(p.maxValue, p.minValue)), p.minValue)
         IN  Return(value)

\* mutant: an angle above endAngle wraps around to minValue
angleToValue_wrapAround(p) ==
    IF Le(p.endAngle, p.startAngle)
    THEN Throw("endAngle must be greater than startAngle")
    ELSE IF Lt(p.angle, p.startAngle) THEN Return(p.minValue)
    ELSE IF Gt(p.angle, p.endAngle) THEN Return(p.minValue)
    ELSE LET ratio == Div(Sub(p.angle, p.startAngle),
                          Sub(p.endAngle, p.startAngle))
             value == Add(Mul(ratio, Sub(p.maxValue, p.minValue)), p.minValue)
         IN  Return(value)

angleToValue(p) ==
    IF Le(p.endAngle, p.startAngle)
    THEN Throw("endAngle must be greater than startAngle")
    ELSE IF Lt(p.angle, p.startAngle) THEN Return(p.minValue)
    ELSE IF Gt(p.angle, p.endAngle) THEN Return(p.maxValue)
    ELSE LET ratio == Div(Sub(p.angle, p.startAngle),
                          Sub(p.endAngle, p.startAngle))
             value == Add(Mul(ratio, Sub(p.maxValue, p.minValue)), p.minValue)
         IN  Return(value)

\* mutant: the range check lets endAngle = startAngle through
valueToAngle_strictCheck(p) ==
    IF Lt(p.endAngle, p.startAngle)
    THEN Throw("endAngle must be greater than startAngle")
    ELSE LET ratio == Div(Sub(p.value, p.minValue),
                          Sub(p.maxValue, p.minValue))
             angle == Add(Mul(ratio, Sub(p.endAngle, p.startAngle)), p.startAngle)
         IN  Return(angle)

\* mutant: the value is clamped into the value range first
valueToAngle_clamped(p) ==
    IF Le(p.endAngle, p.startAngle)
    THEN Throw("endAngle must be greater than startAngle")
    ELSE LET lo == IF Lt(p.maxValue, p.minValue) THEN p.maxValue ELSE p.minValue
             hi == IF Lt(p.maxValue, p.minValue) THEN p.minValue ELSE p.maxValue
             v  == IF Lt(p.value, lo) THEN lo
                   ELSE IF Gt(p.value, hi) THEN hi ELSE p.value
             ratio == Div(Sub(v, p.minValue), Sub(p.maxValue, p.minValue))
             angle == Add(Mul(ratio, Sub(p.endAngle, p.startAngle)), p.startAngle)
         IN  Return(angle)

valueToAngle(p) ==
    IF Le(p.endAngle, p.startAngle)
    THEN Throw("endAngle must be greater than startAngle")
    ELSE LET ratio == Div(Sub(p.value, p.minValue),
                          Sub(p.maxValue, p.minValue))
             angle == Add(Mul(ratio, Sub(p.endAngle, p.startAngle)), p.startAngle)
         IN  Return(angle)

(***************************************************************************)
(* SpecMap: one call of angleToValue or of valueToAngle                    *)
(***************************************************************************)
MaxValue == 3
MaxAngle == 3

MapValues == (-MaxValue)..MaxValue
MapAngles == (-MaxAngle)..MaxAngle

InitMap ==
    /\ NoSlider
    /\ pc = "call"
    /\ mid = Null
    /\ ret = Null
    /\ \/ /\ op = "angleToValue"
          /\ \E a \in (-MaxAngle - 1)..(MaxAngle + 1), lo \in MapValues,
                hi \in MapValues, s \in MapAngles, e \in MapAngles :
                args = [angle |-> a, minValue |-> lo, maxValue |-> hi,
                        startAngle |-> s, endAngle |-> e]
       \/ /\ op = "valueToAngle"
          /\ \E v \in (-MaxValue - 1)..(MaxValue + 1), lo \in MapValues,
                hi \in MapValues, s \in MapAngles, e \in MapAngles :
                args = [value |-> v, minValue |-> lo, maxValue |-> hi,
                        startAngle |-> s, endAngle |-> e]

CallAngleToValue ==
    /\ pc = "call"
    /\ op = "angleToValue"
    /\ ret' = angleToValue([angle |-> R(args.angle),
                            minValue |-> R(args.minValue),
                            maxValue |-> R(args.maxValue),
                            startAngle |-> R(args.startAngle),
                            endAngle |-> R(args.endAngle)])
    /\ pc' = "done"
    /\ UNCHANGED <<op, args, mid>>
    /\ UNCHANGED sliderVars

CallValueToAngle ==
    /\ pc = "call"
    /\ op = "valueToAngle"
    /\ ret' = valueToAngle([value |-> R(args.value),
                            minValue |-> R(args.minValue),
                            maxValue |-> R(args.maxValue),
                            startAngle |-> R(args.startAngle),
                            endAngle |-> R(args.endAngle)])
    /\ pc' = "done"
    /\ UNCHANGED <<op, args, mid>>
    /\ UNCHANGED sliderVars

NextMap == CallAngleToValue \/ CallValueToAngle

SpecMap == InitMap /\ [][NextMap]_vars

(***************************************************************************)
(* Claims about the value/angle mappings (checked under SpecMap)           *)
(***************************************************************************)
MinOf(x, y) == IF x < y THEN x ELSE y

MaxOf(x, y) == IF x < y THEN y ELSE x

\* the finite number v equals the fraction n / d (d # 0), by cross-multiplication
EqualsFraction(v, n, d) == IsFinite(v) /\ v[1] * d = n * v[2]

\* C1: for startAngle < endAngle, angleToValue returns minValue below
\* startAngle, maxValue above endAngle and otherwise
\* minValue + (angle - startAngle)/(endAngle - startAngle) * (maxValue - minValue);
\* startAngle maps to minValue, endAngle to maxValue, and the result always
\* lies in the closed interval spanned by minValue and maxValue.
C1_AngleToValue ==
    (pc = "done" /\ op = "angleToValue" /\ args.startAngle < args.endAngle) =>
        LET a  == args.angle
            lo == args.minValue
            hi == args.maxValue
            s  == args.startAngle
            e  == args.endAngle
            v  == ret.value
        IN  /\ ret.kind = "return"
            /\ IsFinite(v)
            /\ a < s => v = <<lo, 1>>
            /\ a > e => v = <<hi, 1>>
            /\ (s <= a /\ a <= e) =>
                  EqualsFraction(v, lo * (e - s) + (a - s) * (hi - lo), e - s)
            /\ a = s => v = <<lo, 1>>
            /\ a = e => v = <<hi, 1>>
            /\ MinOf(lo, hi) * v[2] <= v[1]
            /\ v[1] <= MaxOf(lo, hi) * v[2]

\* C1 witness: an interpolation strictly inside the angle range, on an
\* inverted scale, with a result that is not an integer.
C1_Witness ==
    /\ pc = "done" /\ op = "angleToValue"
    /\ args.startAngle < args.angle /\ args.angle < args.endAngle
    /\ args.maxValue < args.minValue
    /\ ret.kind = "return" /\ ret.value[2] > 1

\* C2: angleToValue and valueToAngle throw exactly when endAngle <= startAngle
\* (equal endpoints included), whatever the other arguments, and return a
\* number otherwise.
C2_InvalidRange ==
    (pc = "done" /\ op \in {"angleToValue", "valueToAngle"}) =>
        /\ ret.kind \in {"throw", "return"}
        /\ (ret.kind = "throw") <=> (args.endAngle <= args.startAngle)
        /\ ret.kind = "throw" =>
              ret.message = "endAngle must be greater than startAngle"

\* C2 witness: valueToAngle called with equal endpoints has thrown.
C2_Witness ==
    /\ pc = "done" /\ op = "valueToAngle"
    /\ args.endAngle = args.startAngle
    /\ args.value > args.maxValue
    /\ ret.kind = "throw"

\* C3: for startAngle < endAngle and minValue # maxValue, valueToAngle returns
\* startAngle + (value - minValue)/(maxValue - minValue) * (endAngle - startAngle)
\* without clamping: minValue maps to startAngle, maxValue to endAngle, and a
\* value outside the value range maps to an angle outside the angle range.
C3_ValueToAngle ==
    (pc = "done" /\ op = "valueToAngle" /\ args.startAngle < args.endAngle
        /\ args.minValue # args.maxValue) =>
        LET x  == args.value
            lo == args.minValue
            hi == args.maxValue
            s  == args.startAngle
            e  == args.endAngle
            v  == ret.value
        IN  /\ ret.kind = "return"
            /\ EqualsFraction(v, s * (hi - lo) + (x - lo) * (e - s), hi - lo)
            /\ x = lo => v = <<s, 1>>
            /\ x = hi => v = <<e, 1>>
            /\ (x < MinOf(lo, hi) \/ x > MaxOf(lo, hi)) =>
                  (v[1] < s * v[2] \/ v[1] > e * v[2])

\* C3 witness: a value above the value range has been mapped to an angle
\* beyond endAngle.
C3_Witness ==
    /\ pc = "done" /\ op = "valueToAngle"
    /\ args.startAngle < args.endAngle
    /\ args.minValue < args.maxValue /\ args.value > args.maxValue
    /\ ret.kind = "return" /\ ret.value[1] > args.endAngle * ret.value[2]

(***************************************************************************)
(* src/utilities/circularGeometry.ts: AngleDescription, convertAngle       *)
(***************************************************************************)
Directions == {"cw", "ccw"}

Axes == {"+x", "-x", "+y", "-y"}

AngleDescription == [direction : Directions, axis : Axes]

\* an omitted optional argument
Undefined == [kind |-> "undefined"]

\* axis[1]: the letter of an axis token
AxisLetter(axis) == IF axis \in {"+x", "-x"} THEN "x" ELSE "y"

\* mutant: the direction flip without the special case for 0
flipDirection_noZeroCase(degree) == Sub(R(360), degree)

\* line 105: degree === 0 ? 0 : 360 - degree
flipDirection(degree) ==
    IF StrictEq(degree, R(0)) THEN R(0) ELSE Sub(R(360), degree)

\* mutant: "ccw+x-y" has moved to the 270 bucket
perpendicularCase_swapped(key, degree) ==
    IF key \in {"ccw-x+y", "ccw+y+x", "ccw-y-x",
                "cw+y-x", "cw-y+x", "cw-x-y", "cw+x+y"}
    THEN Return(Rem(Add(R(90), degree), R(360)))
    ELSE IF key \in {"ccw+y-x", "ccw-y+x", "ccw+x+y", "ccw-x-y", "ccw+x-y",
                     "cw+x-y", "cw-x+y", "cw+y+x", "cw-y-x"}
    THEN Return(Rem(Add(R(270), degree), R(360)))
    ELSE Throw("Unhandled conversion")

\* mutant: the case "cw-y-x" is missing from the switch
perpendicularCase_missingCase(key, degree) ==
    IF key \in {"ccw+x-y", "ccw-x+y", "ccw+y+x", "ccw-y-x",
                "cw+y-x", "cw-y+x", "cw-x-y", "cw+x+y"}
    THEN Return(Rem(Add(R(90), degree), R(360)))
    ELSE IF key \in {"ccw+y-x", "ccw-y+x", "ccw+x+y", "ccw-x-y",
                     "cw+x-y", "cw-x+y", "cw+y+x"}
    THEN Return(Rem(Add(R(270), degree), R(360)))
    ELSE Throw("Unhandled conversion")

\* lines 118-140: the switch over to.direction + from.axis + to.axis
perpendicularCase(key, degree) ==
    IF key \in {"ccw+x-y", "ccw-x+y", "ccw+y+x", "ccw-y-x",
                "cw+y-x", "cw-y+x", "cw-x-y", "cw+x+y"}
    THEN Return(Rem(Add(R(90), degree), R(360)))
    ELSE IF key \in {"ccw+y-x", "ccw-y+x", "ccw+x+y", "ccw-x-y",
                     "cw+x-y", "cw-x+y", "cw+y+x", "cw-y-x"}
    THEN Return(Rem(Add(R(270), degree), R(360)))
    ELSE Throw("Unhandled conversion")

\* mutant: axes on the same line are a quarter turn apart
convertAngle_sameLineQuarter(degree0, from, to0) ==
    LET to == IF to0 = Undefined
              THEN [direction |-> "ccw", axis |-> "+x"] ELSE to0
        degree == IF from.direction # to.direction
                  THEN flipDirection(degree0) ELSE degree0
    IN  IF from.axis = to.axis THEN Return(degree)
        ELSE IF AxisLetter(from.axis) = AxisLetter(to.axis)
        THEN Return(Rem(Add(R(90), degree), R(360)))
        ELSE perpendicularCase(to.direction \o from.axis \o to.axis, degree)

convertAngle(degree0, from, to0) ==
    LET to == IF to0 = Undefined
              THEN [direction |-> "ccw", axis |-> "+x"] ELSE to0
        degree == IF from.direction # to.direction
                  THEN flipDirection(degree0) ELSE degree0
    IN  IF from.axis = to.axis THEN Return(degree)
        ELSE IF AxisLetter(from.axis) = AxisLetter(to.axis)
        THEN Return(Rem(Add(R(180), degree), R(360)))
        ELSE perpendicularCase(to.direction \o from.axis \o to.axis, degree)

(***************************************************************************)
(* SpecConv: one call of convertAngle                                      *)
(***************************************************************************)
DegreeOver == 100

\* degrees in [0, 360) and DegreeOver more on either side
ConvDegrees == (-DegreeOver)..(359 + DegreeOver)

InitConv ==
    /\ NoSlider
    /\ pc = "call"
    /\ op = "convertAngle"
    /\ mid = Null
    /\ ret = Null
    /\ \E d \in ConvDegrees, f \in AngleDescription,
          t \in AngleDescription \cup {Undefined} :
          args = [degree |-> d, from |-> f, to |-> t]

CallConvertAngle ==
    /\ pc = "call"
    /\ op = "convertAngle"
    /\ ret' = convertAngle(R(args.degree), args.from, args.to)
    /\ pc' = "done"
    /\ UNCHANGED <<op, args, mid>>
    /\ UNCHANGED sliderVars

NextConv == CallConvertAngle

SpecConv == InitConv /\ [][NextConv]_vars

(***************************************************************************)
(* Claims about convertAngle (checked under SpecConv)                      *)
(***************************************************************************)
\* the angle, counterclockwise from +x, at which an axis points
AxisBase(axis) ==
    CASE axis = "+x" -> 0 [] axis = "+y" -> 90
      [] axis = "-x" -> 180 [] axis = "-y" -> 270

DirectionSign(direction) == IF direction = "ccw" THEN 1 ELSE -1

\* the physical direction (counterclockwise from +x, in 0..359) that the
\* integer degree deg names under description D
Phys(deg, D) == (AxisBase(D.axis) + DirectionSign(D.direction) * deg) % 360

\* the description convertAngle converts to
TargetOf(t) == IF t = Undefined THEN [direction |-> "ccw", axis |-> "+x"] ELSE t

\* C6: for all 8 x 8 pairs of descriptions (and an omitted `to`, which stands
\* for counterclockwise/+x) and every degree in [0, 360), the converted angle
\* names the same physical direction under `to` as the degree did under `from`.
C6_ConvertPreservesDirection ==
    (pc = "done" /\ op = "convertAngle" /\ args.degree \in 0..359) =>
        /\ ret.kind = "return"
        /\ ret.value[2] = 1
        /\ Phys(ret.value[1], TargetOf(args.to)) = Phys(args.degree, args.from)

\* C6 witness: 90 degrees clockwise from +y converted with `to` omitted gives 0.
C6_Witness ==
    /\ pc = "done" /\ op = "convertAngle"
    /\ args.degree = 90
    /\ args.from = [direction |-> "cw", axis |-> "+y"]
    /\ args.to = Undefined
    /\ ret = Return(R(0))

\* C7: with the axis unchanged, 0 converts to 0 between any two directions,
\* any other degree d converts to 360 - d across a direction flip, and d is
\* returned unchanged when the direction is the same too.
C7_SameAxis ==
    (pc = "done" /\ op = "convertAngle"
        /\ args.from.axis = TargetOf(args.to).axis) =>
        LET d    == args.degree
            flip == args.from.direction # TargetOf(args.to).direction
        IN  /\ ret.kind = "return"
            /\ d = 0 => ret.value = <<0, 1>>
            /\ (d # 0 /\ flip) => ret.value = <<360 - d, 1>>
            /\ ~flip => ret.value = <<d, 1>>

\* C7 witness: 0 degrees converted across a direction flip on the -y axis is 0.
C7_Witness ==
    /\ pc = "done" /\ op = "convertAngle"
    /\ args.degree = 0
    /\ args.from = [direction |-> "cw", axis |-> "-y"]
    /\ args.to = [direction |-> "ccw", axis |-> "-y"]
    /\ ret = Return(R(0))

(***************************************************************************)
(* Trigonometry.  Radians are kept as exact multiples of pi: the number q  *)
(* stands for q * pi, so Math.PI is 1.  A sine or cosine value, and every  *)
(* coordinate computed from one, is the exact real c + k * sin(phi deg),   *)
(* written <<c, k, phi>> with 0 < phi < 90 and phi # 30 when k # 0 (the    *)
(* sines of 0, 30 and 90 degrees are the numbers 0, 1/2 and 1, and no      *)
(* other sine of a rational angle in that range is rational), so that      *)
(* equal reals have equal representations.                                 *)
(***************************************************************************)
PI == R(1)

\* the plain number c as a coordinate value
S(c) == <<c, R(0), R(0)>>

SNorm(c, k, phi) ==
    IF IsNaN(c) \/ IsNaN(k) THEN S(NaN)
    ELSE IF k = R(0) THEN S(c)
    ELSE <<c, k, phi>>

\* s * r
SScale(s, r) == SNorm(Mul(s[1], r), Mul(s[2], r), s[3])

\* s + r
SPlusNum(s, r) == SNorm(Add(s[1], r), s[2], s[3])

\* s - r
SMinusNum(s, r) == SNorm(Sub(s[1], r), s[2], s[3])

\* r - s
NumMinusS(r, s) == SNorm(Sub(r, s[1]), Neg(s[2]), s[3])

\* the sign of a value that is a plain number or a multiple of one sine
SSign(s) == IF s[2] = R(0) THEN Sign(s[1][1]) ELSE Sign(s[2][1])

SAbs(s) == IF SSign(s) < 0 THEN SScale(s, R(-1)) ELSE s

RAbs(a) == <<Abs(a[1]), a[2]>>

\* sin(phi degrees) for 0 < phi < 90
SinDeg(phi) == IF phi = R(30) THEN S(Num(1, 2)) ELSE <<R(0), R(1), phi>>

\* the degree t brought into [0, 360)
Turn(t) == Sub(t, R(360 * ((t[1] \div t[2]) \div 360)))

\* the sine of u degrees, 0 <= u < 360
SinTurn(u) ==
    IF u = R(0) \/ u = R(180) THEN S(R(0))
    ELSE IF u = R(90) THEN S(R(1))
    ELSE IF u = R(270) THEN S(R(-1))
    ELSE IF Lt(u, R(90)) THEN SinDeg(u)
    ELSE IF Lt(u, R(180)) THEN SinDeg(Sub(R(180), u))
    ELSE IF Lt(u, R(270)) THEN SScale(SinDeg(Sub(u, R(180))), R(-1))
    ELSE SScale(SinDeg(Sub(R(360), u)), R(-1))

\* Math.sin of q * pi
MathSin(q) ==
    IF ~IsFinite(q) THEN S(NaN) ELSE SinTurn(Turn(Mul(q, R(180))))

\* Math.cos of q * pi
MathCos(q) == MathSin(Add(q, Num(1, 2)))

\* the result of Math.atan2 for a pair of coordinates outside the class above
Unmodelled == <<0, -1>>

\* Math.atan2(dY, dX), as a multiple of pi in (-1, 1]
MathAtan2(dY, dX) ==
    IF IsNaN(dY[1]) \/ IsNaN(dX[1]) THEN NaN
    ELSE IF dY[2] = R(0) /\ dX[2] = R(0) /\ (dY[1] = R(0) \/ dX[1] = R(0))
    THEN IF dY[1] = R(0) THEN (IF dX[1][1] >= 0 THEN R(0) ELSE PI)
         ELSE IF dY[1][1] > 0 THEN Num(1, 2) ELSE Num(-1, 2)
    ELSE IF dY[2] = R(0) /\ dX[2] = R(0) THEN Unmodelled
    ELSE LET phi == IF dY[2] # R(0) THEN dY[3] ELSE Sub(R(90), dX[3])
             rho == IF dY[2] # R(0) THEN RAbs(dY[2]) ELSE RAbs(dX[2])
             q   == Div(phi, R(180))
         IN  IF SAbs(dY) # SScale(SinDeg(phi), rho)
                \/ SAbs(dX) # SScale(SinDeg(Sub(R(90), phi)), rho)
             THEN Unmodelled
             ELSE IF SSign(dY) > 0
             THEN (IF SSign(dX) > 0 THEN q ELSE Sub(PI, q))
             ELSE (IF SSign(dX) > 0 THEN Neg(q) ELSE Sub(q, PI))

(***************************************************************************)
(* src/utilities/circularGeometry.ts: angleToPosition, positionToAngle     *)
(***************************************************************************)
\* mutant: the third quadrant has lost the sign of dX
quadrantOffsets_thirdQuadrant(angleInRad, radius) ==
    IF Le(angleInRad, PI)
    THEN IF Le(angleInRad, Div(PI, R(2)))
         THEN [dY |-> SScale(MathSin(angleInRad), radius),
               dX |-> SScale(MathCos(angleInRad), radius)]
         ELSE [dY |-> SScale(MathSin(Sub(PI, angleInRad)), radius),
               dX |-> SScale(SScale(MathCos(Sub(PI, angleInRad)), radius), R(-1))]
    ELSE IF Le(angleInRad, Mul(PI, Num(3, 2)))
    THEN [dY |-> SScale(SScale(MathSin(Sub(angleInRad, PI)), radius), R(-1)),
          dX |-> SScale(MathCos(Sub(angleInRad, PI)), radius)]
    ELSE [dY |-> SScale(SScale(MathSin(Sub(Mul(R(2), PI), angleInRad)), radius),
                        R(-1)),
          dX |-> SScale(MathCos(Sub(Mul(R(2), PI), angleInRad)), radius)]

\* lines 168-187: dX and dY, by quadrant
quadrantOffsets(angleInRad, radius) ==
    IF Le(angleInRad, PI)
    THEN IF Le(angleInRad, Div(PI, R(2)))
         THEN [dY |-> SScale(MathSin(angleInRad), radius),
               dX |-> SScale(MathCos(angleInRad), radius)]
         ELSE [dY |-> SScale(MathSin(Sub(PI, angleInRad)), radius),
               dX |-> SScale(SScale(MathCos(Sub(PI, angleInRad)), radius), R(-1))]
    ELSE IF Le(angleInRad, Mul(PI, Num(3, 2)))
    THEN [dY |-> SScale(SScale(MathSin(Sub(angleInRad, PI)), radius), R(-1)),
          dX |-> SScale(SScale(MathCos(Sub(angleInRad, PI)), radius), R(-1))]
    ELSE [dY |-> SScale(SScale(MathSin(Sub(Mul(R(2), PI), angleInRad)), radius),
                        R(-1)),
          dX |-> SScale(MathCos(Sub(Mul(R(2), PI), angleInRad)), radius)]

\* lines 189-194: the offsets d from the centre, in svg coordinates
svgCoordinates(d, svgSize) ==
    [x |-> SPlusNum(d.dX, Div(svgSize, R(2))),
     y |-> NumMinusS(Div(svgSize, R(2)), d.dY)]

\* lines 167-194, given what convertAngle produced (its error propagates)
positionOfConverted(angleConverted, radius, svgSize) ==
    IF angleConverted.kind = "throw" THEN angleConverted
    ELSE Return(svgCoordinates(
             quadrantOffsets(Mul(Div(angleConverted.value, R(180)), PI), radius),
             svgSize))

angleToPosition(angle, radius, svgSize) ==
    positionOfConverted(
        convertAngle(angle.degree,
                     [direction |-> angle.direction, axis |-> angle.axis],
                     [direction |-> "ccw", axis |-> "+x"]),
        radius, svgSize)

\* mutant: a negative atan2 result is not brought into [0, 2 pi)
wrapTheta_noWrap(theta) == theta

\* lines 218-220
wrapTheta(theta) ==
    IF Lt(theta, R(0)) THEN Add(theta, Mul(R(2), PI)) ELSE theta

positionToAngle(position, svgSize, angleType) ==
    convertAngle(
        Mul(Div(wrapTheta(MathAtan2(NumMinusS(Div(svgSize, R(2)), position.y),
                                    SMinusNum(position.x, Div(svgSize, R(2))))),
                PI),
            R(180)),
        [direction |-> "ccw", axis |-> "+x"],
        angleType)

(***************************************************************************)
(* SpecPos: angleToPosition followed by positionToAngle on its result, or  *)
(* positionToAngle followed by angleToPosition on its result               *)
(***************************************************************************)
MaxRadius == 2
MaxSvgSize == 3

\* degrees in [0, 360): the multiples of 7.5
PosDegrees == {Num(15 * k, 2) : k \in 0..47}

PosRadii == 0..MaxRadius

SvgSizes == 0..MaxSvgSize

\* the point at distance rho from the centre of the canvas in the direction
\* theta degrees counterclockwise from +x (screen y grows downward)
PolarPoint(theta, rho, svgSize) ==
    [x |-> SPlusNum(SScale(MathCos(Div(theta, R(180))), rho), Div(svgSize, R(2))),
     y |-> NumMinusS(Div(svgSize, R(2)), SScale(MathSin(Div(theta, R(180))), rho))]

InitPos ==
    /\ NoSlider
    /\ pc = "call"
    /\ mid = Null
    /\ ret = Null
    /\ \/ /\ op = "angleToPosition;positionToAngle"
          /\ \E a \in PosDegrees, d \in AngleDescription,
                r \in PosRadii, sz \in SvgSizes :
                args = [degree |-> a, angleType |-> d, radius |-> r, svgSize |-> sz]
       \/ /\ op = "positionToAngle;angleToPosition"
          /\ \E th \in PosDegrees, rho \in 1..(MaxRadius + 1),
                d \in AngleDescription, r \in PosRadii, sz \in SvgSizes :
                args = [position |-> PolarPoint(th, R(rho), R(sz)),
                        theta |-> th, rho |-> rho,
                        angleType |-> d, radius |-> r, svgSize |-> sz]

CallAngleToPosition ==
    \/ /\ pc = "call"
       /\ op = "angleToPosition;positionToAngle"
       /\ mid' = angleToPosition([degree |-> args.degree,
                                  direction |-> args.angleType.direction,
                                  axis |-> args.angleType.axis],
                                 R(args.radius), R(args.svgSize))
       /\ pc' = "mid"
       /\ UNCHANGED <<op, args, ret>>
       /\ UNCHANGED sliderVars
    \/ /\ pc = "mid"
       /\ op = "positionToAngle;angleToPosition"
       /\ ret' = IF mid.kind = "throw" THEN mid
                 ELSE angleToPosition([degree |-> mid.value,
                                       direction |-> args.angleType.direction,
                                       axis |-> args.angleType.axis],
                                      R(args.radius), R(args.svgSize))
       /\ pc' = "done"
       /\ UNCHANGED <<op, args, mid>>
       /\ UNCHANGED sliderVars

CallPositionToAngle ==
    \/ /\ pc = "call"
       /\ op = "positionToAngle;angleToPosition"
       /\ mid' = positionToAngle(args.position, R(args.svgSize), args.angleType)
       /\ pc' = "mid"
       /\ UNCHANGED <<op, args, ret>>
       /\ UNCHANGED sliderVars
    \/ /\ pc = "mid"
       /\ op = "angleToPosition;positionToAngle"
       /\ ret' = IF mid.kind = "throw" THEN mid
                 ELSE positionToAngle(mid.value, R(args.svgSize), args.angleType)
       /\ pc' = "done"
       /\ UNCHANGED <<op, args, mid>>
       /\ UNCHANGED sliderVars

NextPos == CallAngleToPosition \/ CallPositionToAngle

SpecPos == InitPos /\ [][NextPos]_vars

(***************************************************************************)
(* Claims about angleToPosition and positionToAngle (checked under SpecPos)*)
(***************************************************************************)
\* the numbers x and y differ by a whole multiple of 360
CongruentMod360(x, y) ==
    LET d == Sub(x, y) IN IsFinite(d) /\ d[2] = 1 /\ d[1] % 360 = 0

\* C4: for each of the 8 descriptions d, every degree a in [0, 360) and
\* every radius > 0, positionToAngle(angleToPosition(a)) is a modulo 360; and
\* for every position p other than the centre, angleToPosition applied to
\* positionToAngle(p) is the point at distance radius on the ray from the
\* centre through p.
C4_RoundTrip ==
    /\ (pc = "done" /\ op = "angleToPosition;positionToAngle"
           /\ args.radius > 0) =>
          /\ ret.kind = "return"
          /\ CongruentMod360(ret.value, args.degree)
    /\ (pc = "done" /\ op = "positionToAngle;angleToPosition") =>
          /\ ret.kind = "return"
          /\ ret.value = PolarPoint(args.theta, R(args.radius), R(args.svgSize))

\* C4 witness: an angle strictly inside the third quadrant of a clockwise/-y
\* description has made the round trip through a position.
C4_Witness ==
    /\ pc = "done" /\ op = "angleToPosition;positionToAngle"
    /\ args.angleType = [direction |-> "cw", axis |-> "-y"]
    /\ args.degree = Num(45, 2)
    /\ args.radius > 0
    /\ mid.kind = "return" /\ mid.value.x[2] # R(0)
    /\ ret = Return(args.degree)

IsCardinal == args.degree \in {R(0), R(90), R(180), R(270)}

\* the position the claim gives for a cardinal degree
CardinalPosition(degree, radius, svgSize) ==
    LET h == Div(R(svgSize), R(2))
    IN  CASE degree = R(0)   -> [x |-> S(Add(h, R(radius))), y |-> S(h)]
          [] degree = R(90)  -> [x |-> S(h), y |-> S(Sub(h, R(radius)))]
          [] degree = R(180) -> [x |-> S(Sub(h, R(radius))), y |-> S(h)]
          [] degree = R(270) -> [x |-> S(h), y |-> S(Add(h, R(radius)))]

CcwFromPlusX == [direction |-> "ccw", axis |-> "+x"]

\* C5 as stated: under counterclockwise/+x, for any svgSize and radius,
\* angleToPosition maps 0, 90, 180, 270 to the right, top, left and bottom
\* points at distance radius, and positionToAngle maps them back.
C5_Original ==
    /\ (pc \in {"mid", "done"} /\ op = "angleToPosition;positionToAngle"
           /\ args.angleType = CcwFromPlusX /\ IsCardinal) =>
          mid = Return(CardinalPosition(args.degree, args.radius, args.svgSize))
    /\ (pc = "done" /\ op = "angleToPosition;positionToAngle"
           /\ args.angleType = CcwFromPlusX /\ IsCardinal) =>
          ret = Return(args.degree)

\* C5 amended: the same, with the way back claimed for radius > 0 only (for
\* radius = 0 the four positions are the centre, which maps to 0).
C5_Cardinals ==
    /\ (pc \in {"mid", "done"} /\ op = "angleToPosition;positionToAngle"
           /\ args.angleType = CcwFromPlusX /\ IsCardinal) =>
          mid = Return(CardinalPosition(args.degree, args.radius, args.svgSize))
    /\ (pc = "done" /\ op = "angleToPosition;positionToAngle"
           /\ args.angleType = CcwFromPlusX /\ IsCardinal /\ args.radius > 0) =>
          ret = Return(args.degree)

\* C5 witness: 270 degrees has been mapped to the bottom point and back.
C5_Witness ==
    /\ pc = "done" /\ op = "angleToPosition;positionToAngle"
    /\ args.angleType = CcwFromPlusX
    /\ args.degree = R(270) /\ args.radius > 0
    /\ mid = Return(CardinalPosition(R(270), args.radius, args.svgSize))
    /\ ret = Return(R(270))

(***************************************************************************)
(* svgPaths (src/unnamed/part_000): arcPathWithRoundedEnds                 *)
(*                                                                         *)
(* The path string is modelled by its tokens: a sequence of segments, each *)
(* a record of the command letter and the numbers and flags interpolated   *)
(* into the template, in the order they appear in the string.              *)
(***************************************************************************)
\* mutant: the full-circle case is not nudged
effectiveEndAngle_noNudge(startAngle, endAngle) == endAngle

\* lines 29-35: the local endAngle after the full-circle adjustment
effectiveEndAngle(startAngle, endAngle) ==
    IF StrictEq(Rem(startAngle, R(360)), Rem(endAngle, R(360)))
          /\ ~StrictEq(startAngle, endAngle)
    THEN Sub(endAngle, Num(1, 1000))
    ELSE endAngle

\* mutant: a difference of exactly 180 is not a large arc
largeArcOf_strict(startAngle, endAngle) == Gt(Sub(endAngle, startAngle), R(180))

\* line 36, with endAngle the local after the adjustment
largeArcOf(startAngle, endAngle) == Ge(Sub(endAngle, startAngle), R(180))

MoveTo(p) == [cmd |-> "M", x |-> p.x, y |-> p.y]

ArcTo(radius, largeArcFlag, sweepFlag, p) ==
    [cmd |-> "A", rx |-> radius, ry |-> radius, rotation |-> 0,
     largeArc |-> largeArcFlag, sweep |-> sweepFlag, x |-> p.x, y |-> p.y]

ClosePath == [cmd |-> "Z"]

\* mutant: the outer arc carries the sweep flag of the inner arc
pathOf_outerSweepAsInner(opts, largeArc, innerArcStart, innerArcEnd, outerArcStart, outerArcEnd) ==
    IF innerArcStart.kind = "throw" THEN innerArcStart
    ELSE IF innerArcEnd.kind = "throw" THEN innerArcEnd
    ELSE Return(<<
        MoveTo(innerArcStart.value),
        ArcTo(opts.innerRadius,
              IF largeArc THEN "1" ELSE "0",
              IF opts.direction = "cw" THEN "1" ELSE "0",
              innerArcEnd.value),
        ArcTo(Div(opts.thickness, R(2)),
              IF largeArc THEN "1" ELSE "0",
              IF opts.direction = "cw" THEN "0" ELSE "1",
              outerArcStart.value),
        ArcTo(Add(opts.innerRadius, opts.thickness),
              IF largeArc THEN "1" ELSE "0",
              IF opts.direction = "cw" THEN "1" ELSE "0",
              outerArcEnd.value),
        ArcTo(Div(opts.thickness, R(2)),
              IF largeArc THEN "1" ELSE "0",
              IF opts.direction = "cw" THEN "0" ELSE "1",
              innerArcStart.value),
        ClosePath>>)

\* lines 44-91: the path, given the local endAngle, largeArc and the four
\* positions (an error of angleToPosition propagates)
pathOf(opts, largeArc, innerArcStart, innerArcEnd, outerArcStart, outerArcEnd) ==
    IF innerArcStart.kind = "throw" THEN innerArcStart
    ELSE IF innerArcEnd.kind = "throw" THEN innerArcEnd
    ELSE Return(<<
        MoveTo(innerArcStart.value),
        ArcTo(opts.innerRadius,
              IF largeArc THEN "1" ELSE "0",
              IF opts.direction = "cw" THEN "1" ELSE "0",
              innerArcEnd.value),
        ArcTo(Div(opts.thickness, R(2)),
              IF largeArc THEN "1" ELSE "0",
              IF opts.direction = "cw" THEN "0" ELSE "1",
              outerArcStart.value),
        ArcTo(Add(opts.innerRadius, opts.thickness),
              IF largeArc THEN "1" ELSE "0",
              IF opts.direction = "cw" THEN "0" ELSE "1",
              outerArcEnd.value),
        ArcTo(Div(opts.thickness, R(2)),
              IF largeArc THEN "1" ELSE "0",
              IF opts.direction = "cw" THEN "0" ELSE "1",
              innerArcStart.value),
        ClosePath>>)

\* mutant: the outer positions are taken in the other order
arcPathWithEndAngle_outerSwapped(opts, endAngle) ==
    pathOf(opts,
           largeArcOf(opts.startAngle, endAngle),
           angleToPosition([degree |-> opts.startAngle,
                            direction |-> opts.angleType.direction,
                            axis |-> opts.angleType.axis],
                           opts.innerRadius, opts.svgSize),
           angleToPosition([degree |-> endAngle,
                            direction |-> opts.angleType.direction,
                            axis |-> opts.angleType.axis],
                           opts.innerRadius, opts.svgSize),
           angleToPosition([degree |-> opts.startAngle,
                            direction |-> opts.angleType.direction,
                            axis |-> opts.angleType.axis],
                           Add(opts.innerRadius, opts.thickness), opts.svgSize),
           angleToPosition([degree |-> endAngle,
                            direction |-> opts.angleType.direction,
                            axis |-> opts.angleType.axis],
                           Add(opts.innerRadius, opts.thickness), opts.svgSize))

\* lines 36-91, with endAngle the local after the adjustment
arcPathWithEndAngle(opts, endAngle) ==
    pathOf(opts,
           largeArcOf(opts.startAngle, endAngle),
           angleToPosition([degree |-> opts.startAngle,
                            direction |-> opts.angleType.direction,
                            axis |-> opts.angleType.axis],
                           opts.innerRadius, opts.svgSize),
           angleToPosition([degree |-> endAngle,
                            direction |-> opts.angleType.direction,
                            axis |-> opts.angleType.axis],
                           opts.innerRadius, opts.svgSize),
           angleToPosition([degree |-> endAngle,
                            direction |-> opts.angleType.direction,
                            axis |-> opts.angleType.axis],
                           Add(opts.innerRadius, opts.thickness), opts.svgSize),
           angleToPosition([degree |-> opts.startAngle,
                            direction |-> opts.angleType.direction,
                            axis |-> opts.angleType.axis],
                           Add(opts.innerRadius, opts.thickness), opts.svgSize))

arcPathWithRoundedEnds(opts) ==
    arcPathWithEndAngle(opts, effectiveEndAngle(opts.startAngle, opts.endAngle))

(***************************************************************************)
(* SpecArc: one call of arcPathWithRoundedEnds                             *)
(***************************************************************************)
MaxEighthTurns == 8
MaxInnerRadius == 1
MaxThickness == 1

\* start and end angles: the multiples of 45 degrees, of either sign.  The
\* canvas is the square that holds the arc, as in CircularSlider's render
\* (innerRadius = sizeW / 2 - trackWidth), so svgSize = 2 * (innerRadius +
\* thickness).
ArcAngles == {45 * k : k \in (-MaxEighthTurns)..MaxEighthTurns}

InitArc ==
    /\ NoSlider
    /\ pc = "call"
    /\ op = "arcPathWithRoundedEnds"
    /\ mid = Null
    /\ ret = Null
    /\ \E s \in ArcAngles, e \in ArcAngles, d \in AngleDescription,
          r \in 1..MaxInnerRadius, th \in 0..MaxThickness,
          dir \in Directions :
          args = [startAngle |-> s, endAngle |-> e, angleType |-> d,
                  innerRadius |-> r, thickness |-> th,
                  svgSize |-> 2 * (r + th), direction |-> dir]

\* mid records the local endAngle as the function leaves it
CallArcPathWithRoundedEnds ==
    /\ pc = "call"
    /\ op = "arcPathWithRoundedEnds"
    /\ ret' = arcPathWithRoundedEnds(
                 [startAngle |-> R(args.startAngle), endAngle |-> R(args.endAngle),
                  angleType |-> args.angleType,
                  innerRadius |-> R(args.innerRadius),
                  thickness |-> R(args.thickness),
                  svgSize |-> R(args.svgSize), direction |-> args.direction])
    /\ mid' = [endAngle |-> effectiveEndAngle(R(args.startAngle), R(args.endAngle))]
    /\ pc' = "done"
    /\ UNCHANGED <<op, args>>
    /\ UNCHANGED sliderVars

NextArc == CallArcPathWithRoundedEnds

SpecArc == InitArc /\ [][NextArc]_vars

(***************************************************************************)
(* Claims about arcPathWithRoundedEnds (checked under SpecArc)             *)
(***************************************************************************)
ArcDone == pc = "done" /\ op = "arcPathWithRoundedEnds"

\* C8: for every pair startAngle, endAngle of either sign that are congruent
\* modulo 360 but not equal, the end angle used is endAngle - 0.001; for every
\* other pair it is endAngle unchanged.
C8_NudgeEveryFullCircle ==
    ArcDone =>
        IF (args.endAngle - args.startAngle) % 360 = 0
              /\ args.endAngle # args.startAngle
        THEN mid.endAngle = Num(1000 * args.endAngle - 1, 1000)
        ELSE mid.endAngle = R(args.endAngle)

\* the destination of the i-th segment of the returned path
PointOf(i) == [x |-> ret.value[i].x, y |-> ret.value[i].y]

ArcSegments == 2..5

C10_LargeArcFlag ==
    ArcDone =>
        LET e == mid.endAngle
        IN  /\ ret.kind = "return"
            /\ \A i \in ArcSegments : ret.value[i].cmd = "A"
            /\ \A i \in ArcSegments : ret.value[i].largeArc = ret.value[2].largeArc
            /\ ret.value[2].largeArc \in {"0", "1"}
            /\ (ret.value[2].largeArc = "1") <=>
                  (e[1] - args.startAngle * e[2] >= 180 * e[2])
            /\ args.endAngle < args.startAngle => ret.value[2].largeArc = "0"

\* C10 witness: an arc of exactly 180 degrees between negative angles has
\* the flag 1.
C10_Witness ==
    /\ ArcDone
    /\ args.startAngle < 0 /\ args.endAngle = args.startAngle + 180
    /\ ret.kind = "return"
    /\ \A i \in ArcSegments : ret.value[i].largeArc = "1"

\* the sweep flag that follows the direction, and its complement
SweepOf(direction) == IF direction = "cw" THEN "1" ELSE "0"

SweepAgainst(direction) == IF direction = "cw" THEN "0" ELSE "1"

\* C11 as stated: the inner-radius arc and the outer-radius arc carry the
\* same sweep flag, set by direction, and the two end-cap arcs both carry the
\* complementary flag.
C11_Original ==
    ArcDone =>
        /\ ret.kind = "return"
        /\ ret.value[2].sweep = SweepOf(args.direction)
        /\ ret.value[4].sweep = ret.value[2].sweep
        /\ ret.value[3].sweep = SweepAgainst(args.direction)
        /\ ret.value[5].sweep = SweepAgainst(args.direction)

\* C11: the inner-radius arc carries the sweep flag 1 for "cw" and 0 for
\* "ccw"; the outer-radius arc, which is traced back from the end to the
\* start, and the two end-cap arcs all carry the complementary flag.
C11_SweepFlags ==
    ArcDone =>
        /\ ret.kind = "return"
        /\ ret.value[2].sweep = SweepOf(args.direction)
        /\ \A i \in 3..5 : ret.value[i].sweep = SweepAgainst(args.direction)
        /\ ret.value[4].sweep # ret.value[2].sweep

\* C11 witness: a counterclockwise arc with thick track has been built: inner
\* arc 0, outer arc and caps 1.
C11_Witness ==
    /\ ArcDone /\ args.direction = "ccw" /\ args.thickness > 0
    /\ args.endAngle > args.startAngle
    /\ ret.kind = "return"
    /\ ret.value[2].sweep = "0" /\ ret.value[4].sweep = "1"
    /\ ret.value[3].sweep = "1" /\ ret.value[5].sweep = "1"

\* the position of an angle of the call's angleType at a radius
ArcPosition(degree, radius) ==
    angleToPosition([degree |-> degree,
                     direction |-> args.angleType.direction,
                     axis |-> args.angleType.axis],
                    radius, R(args.svgSize))

\* C12: the path is M, four A segments, Z: from inner-at-start an arc of
\* radius innerRadius to inner-at-end, a cap of radius thickness / 2 to
\* outer-at-end, an arc of radius innerRadius + thickness to outer-at-start,
\* a cap of radius thickness / 2 back to inner-at-start, where the last
\* destination is the starting point; the four points are angleToPosition of
\* startAngle or of the end angle used, at innerRadius or innerRadius +
\* thickness, with the call's angleType and svgSize.
C12_PathOutline ==
    ArcDone =>
        /\ ret.kind = "return"
        /\ Len(ret.value) = 6
        /\ ret.value[1].cmd = "M" /\ ret.value[6].cmd = "Z"
        /\ \A i \in ArcSegments :
              /\ ret.value[i].cmd = "A"
              /\ ret.value[i].rx = ret.value[i].ry
              /\ ret.value[i].rotation = 0
        /\ ret.value[2].rx = R(args.innerRadius)
        /\ ret.value[3].rx = Num(args.thickness, 2)
        /\ ret.value[4].rx = R(args.innerRadius + args.thickness)
        /\ ret.value[5].rx = Num(args.thickness, 2)
        /\ PointOf(1) = ArcPosition(R(args.startAngle), R(args.innerRadius)).value
        /\ PointOf(2) = ArcPosition(mid.endAngle, R(args.innerRadius)).value
        /\ PointOf(3) = ArcPosition(mid.endAngle,
                                    R(args.innerRadius + args.thickness)).value
        /\ PointOf(4) = ArcPosition(R(args.startAngle),
                                    R(args.innerRadius + args.thickness)).value
        /\ PointOf(5) = PointOf(1)

\* C12 witness: a quarter arc with a thick track has been built; its four
\* corner points are pairwise different and the outline returns to the first.
C12_Witness ==
    /\ ArcDone /\ args.thickness > 0
    /\ args.endAngle = args.startAngle + 90
    /\ ret.kind = "return" /\ Len(ret.value) = 6
    /\ Cardinality({PointOf(1), PointOf(2), PointOf(3), PointOf(4)}) = 4
    /\ PointOf(5) = PointOf(1)

(***************************************************************************)
(* Further claims about convertAngle (checked under SpecConv)              *)
(***************************************************************************)
ConvDone == pc = "done" /\ op = "convertAngle"

\* the eight perpendicular pairings (target direction, from axis, to axis)
\* that are a quarter turn apart
QuarterTurnPairings ==
    {<<"ccw", "+x", "-y">>, <<"ccw", "-x", "+y">>, <<"ccw", "+y", "+x">>,
     <<"ccw", "-y", "-x">>, <<"cw", "+y", "-x">>, <<"cw", "-y", "+x">>,
     <<"cw", "-x", "-y">>, <<"cw", "+x", "+y">>}

ExpectedOffset(direction, fromAxis, toAxis) ==
    IF {fromAxis, toAxis} \in {{"+x", "-x"}, {"+y", "-y"}} THEN 180
    ELSE IF <<direction, fromAxis, toAxis>> \in QuarterTurnPairings THEN 90
    ELSE 270

\* the integer degree after the optional direction flip
DegreeAfterFlip ==
    IF args.from.direction = TargetOf(args.to).direction THEN args.degree
    ELSE IF args.degree = 0 THEN 0 ELSE 360 - args.degree

\* the remainder of the integer a by 360 as the % operator gives it
RemainderBy360(a) == IF a >= 0 THEN a % 360 ELSE -((-a) % 360)

C18_NeverUnhandled ==
    (pc = "done" /\ op \in {"convertAngle", "angleToPosition",
                            "positionToAngle", "arcPathWithRoundedEnds"}) =>
        /\ ret.kind = "return"
        /\ op = "convertAngle" => IsFinite(ret.value)

\* C18 witness: the last case of the switch, clockwise from -y to -x, has
\* returned a number.
C18_Witness ==
    /\ ConvDone
    /\ args.from.axis = "-y"
    /\ args.to = [direction |-> "cw", axis |-> "-x"]
    /\ ret.kind = "return" /\ IsFinite(ret.value)

(***************************************************************************)
(* src/components/CircularSlider.tsx: processSelection                     *)
(*                                                                         *)
(* props is the record of the props the handlers read; knob.onChange and   *)
(* onControlFinished are TRUE when the callback is given.  A call of a     *)
(* callback is recorded, in order, in the trace the handler returns; a     *)
(* trace that ends in an Uncaught record is a handler left by an exception.*)
(* The svg element is [ctm |-> [a, e, f]]: getScreenCTM() maps the svg     *)
(* point (x, y) to the screen point (a * x + e, a * y + f).                *)
(***************************************************************************)
ProcessSelectionCall(x, y) == [fn |-> "processSelection", x |-> x, y |-> y]

OnChangeCall(value) == [fn |-> "knob.onChange", value |-> value]

OnControlFinishedCall == [fn |-> "onControlFinished"]

\* the exception t leaves the handler
Uncaught(t) == [fn |-> "throw", message |-> t.message]

\* Math.floor of a finite number
MathFloor(a) == R(a[1] \div a[2])

\* Math.round: the nearest integer, a tie going up
MathRound(a) ==
    IF ~IsFinite(a) THEN a ELSE MathFloor(Add(a, Num(1, 2)))

\* mutant: Math.floor in place of Math.round
coerceToInt_floor(p, value) ==
    IF p.coerceToInt THEN MathFloor(value) ELSE value

\* line 247
coerceToInt(p, value) ==
    IF p.coerceToInt THEN MathRound(value) ELSE value

\* line 248
coerceToHalf(p, value) ==
    IF p.coerceToHalf THEN Div(MathRound(Mul(value, R(2))), R(2)) ELSE value

\* line 249
coerceToQuarter(p, value) ==
    IF p.coerceToQuarter THEN Div(MathRound(Mul(value, R(4))), R(4)) ELSE value

\* lines 247-253: the coercions and the call of knob.onChange
notifyChange(p, value) ==
    IF value.kind = "throw" THEN <<Uncaught(value)>>
    ELSE IF ~p.disabled
    THEN <<OnChangeCall(coerceToQuarter(p, coerceToHalf(p,
                            coerceToInt(p, value.value))))>>
    ELSE <<>>

\* lines 239-245: angleToValue on the angle of the pointer
selectValue(p, angle) ==
    IF angle.kind = "throw" THEN <<Uncaught(angle)>>
    ELSE notifyChange(p, angleToValue([angle |-> angle.value,
                                       minValue |-> p.minValue,
                                       maxValue |-> p.maxValue,
                                       startAngle |-> p.startAngle,
                                       endAngle |-> p.endAngle]))

\* lines 231-236: svgPoint.matrixTransform(svgRef.getScreenCTM().inverse())
coordsInSvg(svg, x, y) ==
    [x |-> SScale(SMinusNum(x, svg.ctm.e), Div(R(1), svg.ctm.a)),
     y |-> SScale(SMinusNum(y, svg.ctm.f), Div(R(1), svg.ctm.a))]

\* lines 208-254; the trace begins with the call of processSelection itself
processSelection(p, svg, x, y) ==
    <<ProcessSelectionCall(x, y)>> \o
        (IF ~p.knob.onChange THEN <<>>
         ELSE IF svg = Null THEN <<>>
         ELSE selectValue(p, positionToAngle(coordsInSvg(svg, x, y),
                                             p.sizeW, p.angleType)))

(***************************************************************************)
(* SpecSelect: one call of processSelection                                *)
(***************************************************************************)
MaxKnobValue == 3
SliderSize == 4

\* the direction of the pointer from the centre of the canvas, in degrees
\* counterclockwise from +x: the multiples of 15
PointerDegrees == {R(15 * k) : k \in 0..23}

\* the svg element as laid out on the screen
ScreenCTM == [a |-> R(2), e |-> R(1), f |-> R(3)]

SvgElement == [ctm |-> ScreenCTM]

\* the screen point over the svg point u
toScreen(svg, u) ==
    [x |-> SPlusNum(SScale(u.x, svg.ctm.a), svg.ctm.e),
     y |-> SPlusNum(SScale(u.y, svg.ctm.a), svg.ctm.f)]

\* the screen point at distance 1 from the centre of the canvas in the
\* direction theta
PointerAt(theta) == toScreen(SvgElement, PolarPoint(theta, R(1), R(SliderSize)))

AngleRanges == {<<0, 360>>, <<90, 270>>, <<90, 90>>}

ValueRanges == {<<0, MaxKnobValue>>, <<MaxKnobValue, -1>>}

InitSelect ==
    /\ NoSlider
    /\ pc = "call"
    /\ op = "processSelection"
    /\ mid = Null
    /\ ret = Null
    /\ \E d \in AngleDescription, ci \in BOOLEAN, ch \in BOOLEAN,
          cq \in BOOLEAN, dis \in BOOLEAN, oc \in BOOLEAN,
          ar \in AngleRanges, vr \in ValueRanges, th \in PointerDegrees :
          args = [p |-> [angleType |-> d,
                         coerceToInt |-> ci, coerceToHalf |-> ch,
                         coerceToQuarter |-> cq, disabled |-> dis,
                         startAngle |-> R(ar[1]), endAngle |-> R(ar[2]),
                         minValue |-> R(vr[1]), maxValue |-> R(vr[2]),
                         knob |-> [onChange |-> oc],
                         sizeW |-> R(SliderSize)],
                  theta |-> th,
                  x |-> PointerAt(th).x, y |-> PointerAt(th).y]

\* mid records the angle the function gets from positionToAngle, when it
\* gets that far
CallProcessSelection ==
    /\ pc = "call"
    /\ op = "processSelection"
    /\ ret' = processSelection(args.p, SvgElement, args.x, args.y)
    /\ mid' = IF args.p.knob.onChange
              THEN [angle |-> positionToAngle(
                                  coordsInSvg(SvgElement, args.x, args.y),
                                  args.p.sizeW, args.p.angleType)]
              ELSE Null
    /\ pc' = "done"
    /\ UNCHANGED <<op, args>>
    /\ UNCHANGED sliderVars

NextSelect == CallProcessSelection

SpecSelect == InitSelect /\ [][NextSelect]_vars

(***************************************************************************)
(* Claims about processSelection (checked under SpecSelect)                *)
(***************************************************************************)
\* the call has been made and has called knob.onChange
SelectChanged ==
    /\ pc = "done" /\ op = "processSelection"
    /\ Len(ret) = 2 /\ ret[2].fn = "knob.onChange"

\* the angle of the pointer under the slider's angleType
PointerAngle ==
    positionToAngle(PolarPoint(args.theta, R(1), R(SliderSize)),
                    R(SliderSize), args.p.angleType).value

\* the value angleToValue gives for the pointer
PointerValue ==
    angleToValue([angle |-> PointerAngle,
                  minValue |-> args.p.minValue, maxValue |-> args.p.maxValue,
                  startAngle |-> args.p.startAngle,
                  endAngle |-> args.p.endAngle]).value

\* x is a multiple of 1 / k that is nearest to y
NearestMultiple(x, y, k) ==
    /\ Mul(x, R(k))[2] = 1
    /\ Le(Mul(RAbs(Sub(x, y)), R(2 * k)), R(1))

\* the multiples of 1/4 around the value range
QuarterGrid ==
    {Num(n, 4) : n \in (-4 * (MaxKnobValue + 2))..(4 * (MaxKnobValue + 2))}

\* C16: the value passed to knob.onChange is the value of angleToValue when
\* no coercion flag is set; otherwise it is a multiple of the step of the
\* coarsest flag set (1, 1/2, 1/4), reached by rounding to the integer, then
\* to the half, then to the quarter, each enabled rounding giving a nearest
\* multiple of its step to the result of the one before.
C16_Coercion ==
    SelectChanged =>
        LET p  == args.p
            v0 == PointerValue
            v  == ret[2].value
            k  == IF p.coerceToInt THEN 1
                  ELSE IF p.coerceToHalf THEN 2
                  ELSE IF p.coerceToQuarter THEN 4 ELSE 0
        IN  /\ k = 0 => v = v0
            /\ k # 0 => Mul(v, R(k))[2] = 1
            /\ \E v1 \in QuarterGrid \cup {v0} :
                  /\ IF p.coerceToInt THEN NearestMultiple(v1, v0, 1)
                                      ELSE v1 = v0
                  /\ \E v2 \in QuarterGrid \cup {v0} :
                        /\ IF p.coerceToHalf THEN NearestMultiple(v2, v1, 2)
                                             ELSE v2 = v1
                        /\ IF p.coerceToQuarter THEN NearestMultiple(v, v2, 4)
                                                ELSE v = v2

\* C16 witness: with coerceToInt and coerceToQuarter set, the value 9/8 of
\* angleToValue has been passed on as 1.
C16_Witness ==
    /\ SelectChanged
    /\ args.p.coerceToInt /\ ~args.p.coerceToHalf /\ args.p.coerceToQuarter
    /\ PointerValue = Num(9, 8)
    /\ ret[2].value = R(1)

(***************************************************************************)
(* src/components/CircularSlider.tsx: the event handlers.  A handler is    *)
(* given the props p, the svg element svg (this.svgRef.current) and the    *)
(* set ls of listeners added to it, and gives the listeners it leaves and  *)
(* the trace of its calls.                                                 *)
(***************************************************************************)
\* lines 147-149 and 157-159: event type and listener
MouseListeners ==
    {<<"mousemove", "handleMouseMove">>,
     <<"mouseleave", "removeMouseListeners">>,
     <<"mouseup", "removeMouseListeners">>}

Handled(ls, trace) == [listeners |-> ls, calls |-> trace]

\* mutant: the check of animated and noControl is missing
handleMousePosition_unguarded(p, svg, ev) ==
    processSelection(p, svg, ev.clientX, ev.clientY)

\* lines 166-172
handleMousePosition(p, svg, ev) ==
    IF p.animated \/ p.noControl THEN <<>>
    ELSE processSelection(p, svg, ev.clientX, ev.clientY)

\* lines 133-135
handleMouseMove(p, svg, ls, ev) == Handled(ls, handleMousePosition(p, svg, ev))

\* lines 144-152; addEventListener adds a listener that is already there
\* no second time
onMouseDown(p, svg, ls, ev) ==
    Handled(IF svg # Null THEN ls \cup MouseListeners ELSE ls,
            handleMousePosition(p, svg, ev))

\* mutant: any mouseenter acts as a click
onMouseEnter_anyButtons(p, svg, ls, ev) == onMouseDown(p, svg, ls, ev)

\* lines 137-142
onMouseEnter(p, svg, ls, ev) ==
    IF ev.buttons = 1 THEN onMouseDown(p, svg, ls, ev) ELSE Handled(ls, <<>>)

\* mutant: the listeners stay on the svg element
removeMouseListeners_keepsListeners(p, svg, ls) ==
    Handled(ls, IF p.onControlFinished THEN <<OnControlFinishedCall>> ELSE <<>>)

\* lines 154-164
removeMouseListeners(p, svg, ls) ==
    Handled(IF svg # Null THEN ls \ MouseListeners ELSE ls,
            IF p.onControlFinished THEN <<OnControlFinishedCall>> ELSE <<>>)

\* mutant: every touch event ends the control
finishTouch_everyType(p, ev, trace) ==
    IF trace[Len(trace)].fn = "throw" THEN trace
    ELSE IF p.onControlFinished THEN trace \o <<OnControlFinishedCall>>
    ELSE trace

\* lines 201-205, after processSelection has left the given trace
finishTouch(p, ev, trace) ==
    IF trace[Len(trace)].fn = "throw" THEN trace
    ELSE IF ev.type \in {"touchend", "touchcancel"} /\ p.onControlFinished
    THEN trace \o <<OnControlFinishedCall>>
    ELSE trace

\* mutant: the multi-touch check is missing
onTouch_anyTouches(p, svg, ls, ev) ==
    IF p.animated \/ p.noControl THEN Handled(ls, <<>>)
    ELSE Handled(ls, finishTouch(p, ev,
                        processSelection(p, svg, ev.changedTouches[1].clientX,
                                         ev.changedTouches[1].clientY)))

\* lines 174-206; touches is ev.touches.length, changedTouches[1] is the
\* first changed touch
onTouch(p, svg, ls, ev) ==
    IF p.animated \/ p.noControl THEN Handled(ls, <<>>)
    ELSE IF ev.touches > 1 \/ (ev.type = "touchend" /\ ev.touches > 0)
    THEN Handled(ls, <<>>)
    ELSE Handled(ls, finishTouch(p, ev,
                        processSelection(p, svg, ev.changedTouches[1].clientX,
                                         ev.changedTouches[1].clientY)))

\* the svg element dispatches a native event of the given type to the
\* listener added for it, if any
dispatch(p, svg, ls, ev) ==
    IF <<ev.type, "handleMouseMove">> \in ls THEN handleMouseMove(p, svg, ls, ev)
    ELSE IF <<ev.type, "removeMouseListeners">> \in ls
    THEN removeMouseListeners(p, svg, ls)
    ELSE Handled(ls, <<>>)

(***************************************************************************)
(* SpecSlider: a CircularSlider with a quarter-turn scale (clockwise from  *)
(* -y, 0 to 270 degrees for 0 to MaxKnobValue), re-rendered with other     *)
(* flags and callbacks, under mouse and touch events                       *)
(***************************************************************************)
MaxPointer == 1
MaxButtons == 2
MaxTouches == 2

\* where the pointer of an event is: directions a quarter turn apart
EventDegrees == {R(90 * k) : k \in 0..MaxPointer}

\* ev.buttons values
Buttons == 0..MaxButtons

\* ev.touches.length values
TouchCounts == 0..MaxTouches

SliderProps(a, n, d, oc, ocf) ==
    [angleType |-> [direction |-> "cw", axis |-> "-y"],
     animated |-> a, noControl |-> n, disabled |-> d,
     coerceToInt |-> FALSE, coerceToHalf |-> FALSE, coerceToQuarter |-> FALSE,
     startAngle |-> R(0), endAngle |-> R(270),
     minValue |-> R(0), maxValue |-> R(MaxKnobValue),
     knob |-> [onChange |-> oc], onControlFinished |-> ocf,
     sizeW |-> R(SliderSize)]

\* a mouse event with the pointer at the screen point pt
MouseEventAt(type, pt, buttons) ==
    [type |-> type, clientX |-> pt.x, clientY |-> pt.y, buttons |-> buttons]

\* a mouse event of which the handlers read the position only
MouseMoveAt(type, pt) == [type |-> type, clientX |-> pt.x, clientY |-> pt.y]

\* a touch event with n touches left on the surface, whose first changed
\* touch is at the screen point pt
TouchEventAt(type, pt, n) ==
    [type |-> type, touches |-> n,
     changedTouches |-> <<[clientX |-> pt.x, clientY |-> pt.y]>>]

\* the state after construction: svgRef.current is null (createRef), no
\* listener has been added
InitSlider ==
    /\ op = "CircularSlider"
    /\ args = Null /\ mid = Null /\ ret = Null
    /\ pc = "constructed"
    /\ \E a \in BOOLEAN, n \in BOOLEAN, d \in BOOLEAN,
          oc \in BOOLEAN, ocf \in BOOLEAN :
          props = SliderProps(a, n, d, oc, ocf)
    /\ svgRef = Null
    /\ listeners = {}
    /\ event = Null
    /\ calls = <<>>
    /\ session = FALSE

\* the handler has run on event ev with result h
AfterEvent(ev, h) ==
    /\ event' = ev
    /\ calls' = h.calls
    /\ listeners' = h.listeners
    /\ UNCHANGED <<props, svgRef>>
    /\ UNCHANGED callVars

\* the svg element is mounted: React sets svgRef.current
Mount ==
    /\ svgRef = Null
    /\ svgRef' = SvgElement
    /\ event' = Null
    /\ calls' = <<>>
    /\ UNCHANGED <<props, listeners, session>>
    /\ UNCHANGED callVars

Differs(x, y) == IF x # y THEN 1 ELSE 0

\* the parent renders the slider with one flag or callback changed
Rerender ==
    /\ \E a \in BOOLEAN, n \in BOOLEAN, d \in BOOLEAN,
          oc \in BOOLEAN, ocf \in BOOLEAN :
          /\ Differs(a, props.animated) + Differs(n, props.noControl)
               + Differs(d, props.disabled) + Differs(oc, props.knob.onChange)
               + Differs(ocf, props.onControlFinished) = 1
          /\ props' = SliderProps(a, n, d, oc, ocf)
    /\ event' = Null
    /\ calls' = <<>>
    /\ UNCHANGED <<svgRef, listeners, session>>
    /\ UNCHANGED callVars

MouseDownWith(ev) ==
    AfterEvent(ev, onMouseDown(props, svgRef, listeners, ev))

\* React calls onMouseDown
MouseDown ==
    /\ \E th \in EventDegrees, b \in Buttons \ {0} :
          MouseDownWith(MouseEventAt("mousedown", PointerAt(th), b))
    /\ session' = (svgRef # Null)

MouseEnterWith(ev) ==
    /\ AfterEvent(ev, onMouseEnter(props, svgRef, listeners, ev))
    /\ session' = IF ev.buttons = 1 THEN svgRef # Null ELSE session

\* React calls onMouseEnter
MouseEnter ==
    \E th \in EventDegrees, b \in Buttons :
        MouseEnterWith(MouseEventAt("mouseenter", PointerAt(th), b))

DispatchWith(ev) ==
    AfterEvent(ev, dispatch(props, svgRef, listeners, ev))

\* the pointer moves over the svg element
MouseMove ==
    /\ svgRef # Null
    /\ \E th \in EventDegrees :
          DispatchWith(MouseMoveAt("mousemove", PointerAt(th)))
    /\ UNCHANGED session

\* a mouse button is released over the svg element
MouseUp ==
    /\ svgRef # Null
    /\ \E th \in EventDegrees :
          DispatchWith(MouseMoveAt("mouseup", PointerAt(th)))
    /\ session' = FALSE

\* the pointer leaves the svg element
MouseLeave ==
    /\ svgRef # Null
    /\ \E th \in EventDegrees :
          DispatchWith(MouseMoveAt("mouseleave", PointerAt(th)))
    /\ session' = FALSE

TouchWith(ev) ==
    AfterEvent(ev, onTouch(props, svgRef, listeners, ev))

\* React calls onTouch for a touch event of the given type
TouchOf(type) ==
    /\ \E th \in EventDegrees, n \in TouchCounts :
          TouchWith(TouchEventAt(type, PointerAt(th), n))
    /\ UNCHANGED session

TouchStart == TouchOf("touchstart")

TouchMove == TouchOf("touchmove")

TouchEnd == TouchOf("touchend")

TouchCancel == TouchOf("touchcancel")

NextSlider ==
    \/ Mount
    \/ Rerender
    \/ MouseDown
    \/ MouseEnter
    \/ MouseMove
    \/ MouseUp
    \/ MouseLeave
    \/ TouchStart
    \/ TouchMove
    \/ TouchEnd
    \/ TouchCancel

SpecSlider == InitSlider /\ [][NextSlider]_vars

(***************************************************************************)
(* Claims about the event handlers (checked under SpecSlider)              *)
(***************************************************************************)
\* the places of the trace of the last event where fn was called
CallsOf(fn) == {i \in DOMAIN calls : calls[i].fn = fn}

TouchTypes == {"touchstart", "touchmove", "touchend", "touchcancel"}

TouchEvent == event # Null /\ event.type \in TouchTypes

\* C13: knob.onChange is called only by an event handled while animated,
\* noControl and disabled are false and knob.onChange is given; while one of
\* the three flags is true no event calls it.
C13_OnChangeOnlyWhenEnabled ==
    CallsOf("knob.onChange") # {} =>
        /\ event # Null
        /\ ~props.animated /\ ~props.noControl /\ ~props.disabled
        /\ props.knob.onChange

\* C13 witness: a mousemove of a mounted, enabled slider has called
\* knob.onChange.
C13_Witness ==
    /\ event # Null /\ event.type = "mousemove"
    /\ ~props.animated /\ ~props.noControl /\ ~props.disabled
    /\ CallsOf("knob.onChange") # {}

\* the last event is a touch event that reports more than one touch, or a
\* touchend that still reports a touch
MultiTouch ==
    /\ TouchEvent
    /\ \/ event.touches > 1
       \/ event.type = "touchend" /\ event.touches > 0

\* C14: a touch event with touches.length > 1, or a touchend with
\* touches.length > 0, processes no position and calls neither knob.onChange
\* nor onControlFinished.
C14_MultiTouchIgnored ==
    MultiTouch =>
        /\ calls = <<>>
        /\ CallsOf("processSelection") = {}
        /\ CallsOf("knob.onChange") = {}
        /\ CallsOf("onControlFinished") = {}

\* C14 witness: a touchend that leaves one touch on a mounted slider with
\* both callbacks given and no flag set has called nothing.
C14_Witness ==
    /\ MultiTouch /\ event.type = "touchend" /\ event.touches = 1
    /\ svgRef # Null
    /\ ~props.animated /\ ~props.noControl /\ ~props.disabled
    /\ props.knob.onChange /\ props.onControlFinished
    /\ calls = <<>>

\* the last event is a single-touch event handled with animated and
\* noControl false
SingleTouch ==
    /\ TouchEvent /\ ~MultiTouch
    /\ ~props.animated /\ ~props.noControl

C19_NoFinishWithoutControl ==
    (props.animated \/ props.noControl) => CallsOf("onControlFinished") = {}

\* C20: a mousemove calls knob.onChange only in a drag session, which starts
\* at a mousedown or at a mouseenter with buttons = 1 and ends at the first
\* mouseup or mouseleave after it; the listeners are on the svg element only
\* in a session.
C20_MoveOnlyInSession ==
    /\ (event # Null /\ event.type = "mousemove"
           /\ CallsOf("knob.onChange") # {}) => session
    /\ (event # Null /\ event.type = "mousemove" /\ ~session) => calls = <<>>
    /\ listeners # {} => session

\* C20 witness: a mousemove outside a session, on a mounted and enabled
\* slider with knob.onChange given, has called nothing.
C20_Witness ==
    /\ event # Null /\ event.type = "mousemove" /\ ~session
    /\ svgRef # Null /\ props.knob.onChange
    /\ ~props.animated /\ ~props.noControl /\ ~props.disabled
    /\ calls = <<>>

\* the step is a mouse event of one of the given types
MouseStep(types) == event' # Null /\ event'.type \in types

\* what C21 says of one step
FinishOncePerSessionStep ==
    /\ MouseStep({"mouseup", "mouseleave"}) =>
          /\ calls' = IF session /\ props.onControlFinished
                      THEN <<OnControlFinishedCall>> ELSE <<>>
          /\ ~session'
          /\ listeners' = {}
    /\ (MouseStep({"mousedown"}) /\ svgRef # Null) =>
          /\ session'
          /\ listeners' = MouseListeners
    /\ MouseStep({"mousemove"}) =>
          /\ Cardinality(CallsOf("knob.onChange")') <= 1
          /\ UNCHANGED <<session, listeners>>
    /\ session' <=> listeners' = MouseListeners
    /\ listeners' \in {{}, MouseListeners}

SelectedPlain ==
    /\ pc = "done" /\ op = "processSelection" /\ mid # Null
    /\ Gt(args.p.endAngle, args.p.startAngle)
    /\ ~args.p.coerceToInt /\ ~args.p.coerceToHalf /\ ~args.p.coerceToQuarter

InitInverse ==
    /\ NoSlider
    /\ pc = "call"
    /\ op = "valueToAngle;angleToValue"
    /\ mid = Null
    /\ ret = Null
    /\ \E v \in (-MaxValue - 1)..(MaxValue + 1), lo \in MapValues,
          hi \in MapValues, s \in MapAngles, e \in MapAngles :
          args = [value |-> v, minValue |-> lo, maxValue |-> hi,
                  startAngle |-> s, endAngle |-> e]

ValueToAngleFirst ==
    /\ pc = "call"
    /\ op = "valueToAngle;angleToValue"
    /\ mid' = valueToAngle([value |-> R(args.value),
                            minValue |-> R(args.minValue),
                            maxValue |-> R(args.maxValue),
                            startAngle |-> R(args.startAngle),
                            endAngle |-> R(args.endAngle)])
    /\ pc' = "mid"
    /\ UNCHANGED <<op, args, ret>>
    /\ UNCHANGED sliderVars

AngleToValueSecond ==
    /\ pc = "mid"
    /\ op = "valueToAngle;angleToValue"
    /\ ret' = IF mid.kind = "throw" THEN mid
              ELSE angleToValue([angle |-> mid.value,
                                 minValue |-> R(args.minValue),
                                 maxValue |-> R(args.maxValue),
                                 startAngle |-> R(args.startAngle),
                                 endAngle |-> R(args.endAngle)])
    /\ pc' = "done"
    /\ UNCHANGED <<op, args, mid>>
    /\ UNCHANGED sliderVars

NextInverse == ValueToAngleFirst \/ AngleToValueSecond

SpecInverse == InitInverse /\ [][NextInverse]_vars

\* both calls are done, for startAngle < endAngle and minValue # maxValue
InverseDone ==
    /\ pc = "done" /\ op = "valueToAngle;angleToValue"
    /\ args.startAngle < args.endAngle
    /\ args.minValue # args.maxValue

\* C23: for startAngle < endAngle and minValue # maxValue in either order,
\* angleToValue of the angle valueToAngle gives for v, with the same range
\* arguments, is v when v is between minValue and maxValue inclusive, and
\* otherwise the one of minValue and maxValue that is nearer to v.
C23_AngleToValueInvertsValueToAngle ==
    InverseDone =>
        LET lo == MinOf(args.minValue, args.maxValue)
            hi == MaxOf(args.minValue, args.maxValue)
        IN  /\ mid.kind = "return" /\ ret.kind = "return"
            /\ ret.value = R(IF args.value < lo THEN lo
                             ELSE IF args.value > hi THEN hi
                             ELSE args.value)

\* C23 witness: on a falling value range from 2 to -1 the value 3, beyond
\* minValue, comes back as 2, by way of an angle below startAngle.
C23_Witness ==
    /\ InverseDone
    /\ args.minValue = 2 /\ args.maxValue = -1 /\ args.value = 3
    /\ Lt(mid.value, R(args.startAngle))
    /\ ret = Return(R(2))

====
